---- MODULE Spec2Model ----
(***************************************************************************)
(* A model of the site-status dashboard client (getSiteData,               *)
(* getMonitorsData, dataProcessing, changeSite), of the status view and of *)
(* the UptimeRobot proxy handler.                                          *)
(*                                                                         *)
(* JavaScript strings that the code splits, trims or joins are sequences   *)
(* of lexemes (TLA+ strings), so that split/trim/join compute something.   *)
(* Times are integers: milliseconds for Date/dayjs values, seconds for     *)
(* unix() values.  The local time zone is taken to be UTC.                 *)
(***************************************************************************)
EXTENDS Integers, Sequences, FiniteSets, TLC

----------------------------------------------------------------------------
(* Bounds of the model *)

\* largest day count a caller passes to getSiteData
MaxDays == 2
\* the clock advances at most MaxTicks times
MaxTicks == 2
\* calls served from one cache entry, one after the other
MaxReads == 2

----------------------------------------------------------------------------
(* Program constants *)

\* one dayjs "day" in milliseconds
DayMs == 86400000
\* const cacheDuration = 60 (seconds)
cacheDuration == 60
\* Math.floor(Math.random() * (1200 - 500 + 1)) + 500
DelayMin == 500
DelayMax == 1200
\* monitor.status === 2 / === 9
StatusUp == 2
StatusDown == 9
\* log.type === 1
LogTypeDown == 1

\* formatNumber of something that is not a number
NaN == -1

----------------------------------------------------------------------------
(* JavaScript library functions the code relies on *)

RECURSIVE SplitFrom(_, _, _, _)
SplitFrom(s, sep, i, cur) ==
    IF i > Len(s) THEN <<cur>>
    ELSE IF s[i] = sep THEN <<cur>> \o SplitFrom(s, sep, i + 1, <<>>)
    ELSE SplitFrom(s, sep, i + 1, Append(cur, s[i]))

\* String.prototype.split: "a-b" -> ["a","b"], "" -> [""], "a-" -> ["a",""]
split(s, sep) == SplitFrom(s, sep, 1, <<>>)

RECURSIVE TrimStart(_)
TrimStart(s) ==
    IF s # <<>> /\ Head(s) = " " THEN TrimStart(Tail(s)) ELSE s

RECURSIVE TrimEnd(_)
TrimEnd(s) ==
    IF s # <<>> /\ s[Len(s)] = " " THEN TrimEnd(SubSeq(s, 1, Len(s) - 1)) ELSE s

\* String.prototype.trim
trim(s) == TrimEnd(TrimStart(s))

\* Array.prototype.reverse
reverse(a) == [i \in 1..Len(a) |-> a[Len(a) + 1 - i]]

\* Array.prototype.indexOf: the 0-based index of the first match, or -1
indexOf(a, x) ==
    IF \E i \in 1..Len(a) : a[i] = x
    THEN (CHOOSE i \in 1..Len(a) : a[i] = x /\ \A j \in 1..(i - 1) : a[j] # x) - 1
    ELSE -1

\* Array.prototype.join: the parts with the separator between them
RECURSIVE join(_, _)
join(parts, sep) ==
    IF parts = <<>> THEN <<>>
    ELSE Head(parts) \o (IF Len(parts) > 1 THEN <<sep>> ELSE <<>>) \o join(Tail(parts), sep)

\* the lexemes of a string built from numbers: a number, or a separator
Num(n) == [sym |-> "", num |-> n]
Sym(ch) == [sym |-> ch, num |-> 0]

\* date.unix(): milliseconds to whole seconds
unix(ms) == ms \div 1000

\* dayjs.unix(seconds): seconds to a dayjs value (milliseconds)
dayjsUnix(sec) == sec * 1000

\* date.add(1, "day")
addDay(ms) == ms + DayMs

\* date.format("YYYYMMDD"): the key of the calendar day holding the instant
formatYYYYMMDD(ms) == ms \div DayMs

\* dayjs(new Date().setHours(0, 0, 0, 0)): the midnight starting the day of t
midnight(t) == t - (t % DayMs)

\* The uptime values the API sends, and the numbers they denote (in tenths)
UptimeTable ==
    [v \in {"95.5", "100.0", "97.0", "0.0"} |->
        CASE v = "95.5" -> 955
          [] v = "100.0" -> 1000
          [] v = "97.0" -> 970
          [] v = "0.0" -> 0]

\* formatNumber (utils/timeTools): the number a percentage string denotes;
\* anything that is not one known percentage lexeme is NaN
formatNumber(tok) ==
    IF Len(tok) = 1 /\ tok[1] \in DOMAIN UptimeTable THEN UptimeTable[tok[1]] ELSE NaN

----------------------------------------------------------------------------
(* dataProcessing *)

\* a JavaScript value that is either undefined or an array
Undefined == [defined |-> FALSE, list |-> <<>>]
Arr(l) == [defined |-> TRUE, list |-> l]

\* siteSortArr = VITE_SITE_SORT.split(",").map(v => v.trim()).reverse()
siteSortArrOf(envSort) == reverse([i \in 1..Len(split(envSort, ",")) |-> trim(split(envSort, ",")[i])])

\* the comparator ordering by i1 - i2
sortCompareAscending(siteSortArr, v1, v2) ==
    LET i1 == indexOf(siteSortArr, trim(v1.friendly_name)) + 1
        i2 == indexOf(siteSortArr, trim(v2.friendly_name)) + 1
    IN  (IF i1 = -1 THEN 0 ELSE i1) - (IF i2 = -1 THEN 0 ELSE i2)

\* the comparator taking a name that is not in the list for equal to any
sortCompareNeutral(siteSortArr, v1, v2) ==
    LET i1 == indexOf(siteSortArr, trim(v1.friendly_name))
        i2 == indexOf(siteSortArr, trim(v2.friendly_name))
    IN  IF i1 = -1 \/ i2 = -1 THEN 0 ELSE i2 - i1

\* the comparator handed to data.sort
sortCompare(siteSortArr, v1, v2) ==
    LET i1 == indexOf(siteSortArr, trim(v1.friendly_name)) + 1
        i2 == indexOf(siteSortArr, trim(v2.friendly_name)) + 1
    IN  (IF i2 = -1 THEN 0 ELSE i2) - (IF i1 = -1 THEN 0 ELSE i1)

\* insert x after every element that does not compare greater than it
RECURSIVE InsertSorted(_, _, _)
InsertSorted(siteSortArr, sorted, x) ==
    IF sorted = <<>> THEN <<x>>
    ELSE IF sortCompare(siteSortArr, Head(sorted), x) > 0
         THEN <<x>> \o sorted
         ELSE <<Head(sorted)>> \o InsertSorted(siteSortArr, Tail(sorted), x)

\* Array.prototype.sort with a comparator: a stable sort
RECURSIVE sortWith(_, _)
sortWith(siteSortArr, a) ==
    IF a = <<>> THEN <<>>
    ELSE InsertSorted(siteSortArr, sortWith(siteSortArr, SubSeq(a, 1, Len(a) - 1)), a[Len(a)])

\* the try block turning the array round
sortSitesReverses(data, envSort) ==
    IF data.defined THEN Arr(reverse(data.list)) ELSE data

\* the try block of dataProcessing: the array sorted in place, or left as it
\* is when VITE_SITE_SORT is unset (split of undefined throws) or data is not
\* an array (data.sort throws); either exception is caught and logged
sortSites(data, envSort) ==
    IF envSort.defined /\ data.defined
    THEN Arr(sortWith(siteSortArrOf(envSort.list), data.list))
    ELSE data

\* map[date.format("YYYYMMDD")] = index: the index the key maps to, 0 for
\* a key the map does not hold (undefined); a later date overwrites an
\* earlier one with the same key
mapIndex(dates, key) ==
    IF \E i \in 1..Len(dates) : formatYYYYMMDD(dates[i]) = key
    THEN CHOOSE i \in 1..Len(dates) :
            /\ formatYYYYMMDD(dates[i]) = key
            /\ \A j \in (i + 1)..Len(dates) : formatYYYYMMDD(dates[j]) # key
    ELSE 0

\* calculateTotal adding the entries of every type to the total
calculateTotalEveryType(acc, log, dates) ==
    LET idx == mapIndex(dates, formatYYYYMMDD(dayjsUnix(log.datetime)))
        total == [times |-> acc.total.times + 1,
                  duration |-> acc.total.duration + log.duration]
    IN  IF log.type # LogTypeDown
        THEN [acc EXCEPT !.total = total]
        ELSE IF idx = 0
             THEN [acc EXCEPT !.threw = TRUE, !.total = total]
             ELSE [acc EXCEPT !.total = total,
                              !.daily[idx].down.duration = @ + log.duration,
                              !.daily[idx].down.times = @ + 1]

\* calculateTotal: one step of the reduce over monitor.logs.  acc holds the
\* running total, the daily buckets and whether daily[map[date]] was
\* undefined, which throws a TypeError after total has been updated
calculateTotal(acc, log, dates) ==
    IF log.type = LogTypeDown
    THEN LET idx == mapIndex(dates, formatYYYYMMDD(dayjsUnix(log.datetime)))
             total == [times |-> acc.total.times + 1,
                       duration |-> acc.total.duration + log.duration]
         IN  IF idx = 0
             THEN [acc EXCEPT !.threw = TRUE, !.total = total]
             ELSE [acc EXCEPT !.total = total,
                              !.daily[idx].down.duration = @ + log.duration,
                              !.daily[idx].down.times = @ + 1]
    ELSE acc

\* monitor.logs.reduce(calculateTotal, {times: 0, duration: 0})
RECURSIVE reduceLogs(_, _, _)
reduceLogs(logs, acc, dates) ==
    IF logs = <<>> \/ acc.threw THEN acc
    ELSE reduceLogs(Tail(logs), calculateTotal(acc, Head(logs), dates), dates)

\* statusOf with code 8 ("seems down") taken for down
statusOfSeemsDown(code) ==
    IF code = StatusDown \/ code = 8 THEN "down"
    ELSE IF code = StatusUp THEN "ok"
    ELSE "unknown"

\* status: 2 -> "ok", 9 -> "down", anything else -> "unknown"
statusOf(code) ==
    IF code = StatusDown THEN "down"
    ELSE IF code = StatusUp THEN "ok"
    ELSE "unknown"

\* dailyOf reading the ranges one place too far
dailyOfShifted(ranges, dates) ==
    [index \in 1..Len(dates) |->
        [date |-> dates[index],
         uptime |-> formatNumber(IF index + 1 <= Len(ranges) THEN ranges[index + 1] ELSE <<>>),
         down |-> [times |-> 0, duration |-> 0]]]

\* the uptime ranges with the last one popped, mapped onto the dates
dailyOf(ranges, dates) ==
    [index \in 1..Len(dates) |->
        [date |-> dates[index],
         uptime |-> formatNumber(IF index <= Len(ranges) THEN ranges[index] ELSE <<>>),
         down |-> [times |-> 0, duration |-> 0]]]

\* the callback of data.map: one monitor to one site, or an exception
processMonitor(monitor, dates) ==
    LET ranges0 == split(monitor.custom_uptime_ranges, "-")
        average == formatNumber(ranges0[Len(ranges0)])
        ranges == SubSeq(ranges0, 1, Len(ranges0) - 1)
        acc == reduceLogs(monitor.logs,
                          [threw |-> FALSE,
                           total |-> [times |-> 0, duration |-> 0],
                           daily |-> dailyOf(ranges, dates)],
                          dates)
    IN  [threw |-> acc.threw,
         site |-> [id |-> monitor.id,
                   name |-> monitor.friendly_name,
                   url |-> monitor.url,
                   average |-> average,
                   daily |-> acc.daily,
                   total |-> acc.total,
                   status |-> statusOf(monitor.status)]]

\* dataProcessing(data, dates): sorted is the input array as the in-place
\* sort leaves it; the result is undefined (data?.map of undefined), a list
\* of sites, or an exception thrown by the map callback
dataProcessing(data, dates, envSort) ==
    LET sorted == sortSites(data, envSort)
        each == [i \in 1..Len(sorted.list) |-> processMonitor(sorted.list[i], dates)]
        threw == \E i \in 1..Len(each) : each[i].threw
    IN  [sorted |-> sorted,
         threw |-> threw,
         defined |-> sorted.defined /\ ~threw,
         list |-> IF threw THEN <<>> ELSE [i \in 1..Len(each) |-> each[i].site]]

----------------------------------------------------------------------------
(* changeSite *)

CountStatus(list, s) == Cardinality({i \in 1..Len(list) : list[i].status = s})

\* changeSite with the "error" and "allError" branches exchanged
changeSiteSwapped(data, st, faviconPresent) ==
    IF ~data.defined \/ ~faviconPresent
    THEN [st EXCEPT !.siteState = "error"]
    ELSE LET isAllStatusOk == \A i \in 1..Len(data.list) : data.list[i].status = "ok"
             isAnyStatusOk == \E i \in 1..Len(data.list) : data.list[i].status = "ok"
         IN  [siteState |-> IF isAllStatusOk THEN "normal"
                            ELSE IF isAnyStatusOk THEN "allError"
                            ELSE "error",
              siteOverview |-> [count |-> Len(data.list),
                                okCount |-> CountStatus(data.list, "ok"),
                                downCount |-> CountStatus(data.list, "down"),
                                unknownCount |-> CountStatus(data.list, "unknown")],
              faviconHref |-> IF isAllStatusOk THEN "./images/favicon.ico"
                              ELSE "./images/favicon-down.ico"]

\* changeSite with a catch block that only logs
changeSiteCatchLogs(data, st, faviconPresent) ==
    IF ~data.defined \/ ~faviconPresent
    THEN st
    ELSE LET isAllStatusOk == \A i \in 1..Len(data.list) : data.list[i].status = "ok"
             isAnyStatusOk == \E i \in 1..Len(data.list) : data.list[i].status = "ok"
         IN  [siteState |-> IF isAllStatusOk THEN "normal"
                            ELSE IF isAnyStatusOk THEN "error"
                            ELSE "allError",
              siteOverview |-> [count |-> Len(data.list),
                                okCount |-> CountStatus(data.list, "ok"),
                                downCount |-> CountStatus(data.list, "down"),
                                unknownCount |-> CountStatus(data.list, "unknown")],
              faviconHref |-> IF isAllStatusOk THEN "./images/favicon.ico"
                              ELSE "./images/favicon-down.ico"]

\* changeSite(data, status): the status store and the favicon afterwards.
\* data.every of undefined and faviconLink.href of null throw; the catch
\* block sets the site state to "error"
changeSite(data, st, faviconPresent) ==
    IF ~data.defined \/ ~faviconPresent
    THEN [st EXCEPT !.siteState = "error"]
    ELSE LET isAllStatusOk == \A i \in 1..Len(data.list) : data.list[i].status = "ok"
             isAnyStatusOk == \E i \in 1..Len(data.list) : data.list[i].status = "ok"
         IN  [siteState |-> IF isAllStatusOk THEN "normal"
                            ELSE IF isAnyStatusOk THEN "error"
                            ELSE "allError",
              siteOverview |-> [count |-> Len(data.list),
                                okCount |-> CountStatus(data.list, "ok"),
                                downCount |-> CountStatus(data.list, "down"),
                                unknownCount |-> CountStatus(data.list, "unknown")],
              faviconHref |-> IF isAllStatusOk THEN "./images/favicon.ico"
                              ELSE "./images/favicon-down.ico"]

----------------------------------------------------------------------------
(* The status view (SiteStatus component) *)

\* the component with the two outer branches exchanged
SiteStatusInverted(state, hasSiteData) ==
    IF state = "wrong"
    THEN IF state # "loading" /\ hasSiteData THEN "sites" ELSE "loading"
    ELSE "errorResult"

\* what the component renders for a site state and a siteData prop that is
\* truthy or not: the error Result with its reload button, the loading
\* placeholder, or the site tiles
SiteStatus(state, hasSiteData) ==
    IF state # "wrong"
    THEN IF state # "loading" /\ hasSiteData THEN "sites" ELSE "loading"
    ELSE "errorResult"

----------------------------------------------------------------------------
(* The upstream API, as the client sees it *)

\* the status codes the API reports: paused, up, seems down, down
StatusCodes == {0, 2, 8, 9}

\* friendly names and urls of the monitors, by id
NameOf(id) == <<<<"A", " ">>, <<"B">>, <<"C">>>>[id]
UrlOf(id) == <<"https://a", "https://b", "https://c">>[id]

UptimeCycle == <<"95.5", "100.0", "97.0">>

\* the uptime string of monitor id for n requested ranges: n values joined
\* by "-" (id 1, three ranges: "95.5-100.0-97.0")
RECURSIVE UptimeString(_, _)
UptimeString(id, n) ==
    IF n = 0 THEN <<>>
    ELSE (IF n = 1 THEN <<>> ELSE UptimeString(id, n - 1) \o <<"-">>)
         \o <<UptimeCycle[((n + id - 2) % 3) + 1]>>

\* a log entry of the given type at noon of the day the range r covers
LogOf(type, dayOff, ranges) ==
    [type |-> type,
     datetime |-> ranges[dayOff + 1][1] + 43200,
     duration |-> 100 * (dayOff + 1) + type]

\* the monitor the API returns for a request with these ranges
MonitorOf(id, code, logSpecs, ranges) ==
    [id |-> id,
     friendly_name |-> NameOf(id),
     url |-> UrlOf(id),
     status |-> code,
     custom_uptime_ranges |-> UptimeString(id, Len(ranges)),
     logs |-> [i \in 1..Len(logSpecs) |->
                  LogOf(logSpecs[i].type, logSpecs[i].dayOff, ranges)]]

\* log entries are of type 1 (down) or 2 (up) and lie in the requested days
LogSpecs(n) == [type : {1, 2}, dayOff : 0..(n - 1)]

SeqsUpTo(S, k) == UNION {[1..m -> S] : m \in 0..k}

\* the numbers of monitors and of log entries (over all its monitors) an
\* API response may hold
MonitorCounts == 0..2
LogCounts == 0..2

RECURSIVE SumLen(_)
SumLen(ss) == IF ss = <<>> THEN 0 ELSE Len(Head(ss)) + SumLen(Tail(ss))

\* the monitor lists the API may return for a request with these ranges (the
\* last of which is the aggregate range): monitors 1..k, each with a status
\* code and with log entries inside the requested days
ApiLists(ranges) ==
    LET n == Len(ranges) - 1
        days == SubSeq(ranges, 1, n)
        logSeqs == SeqsUpTo(LogSpecs(n), 2)
    IN  UNION {
          {[id \in 1..k |->
               [MonitorOf(id, codes[id], logs[id], days) EXCEPT
                   !.custom_uptime_ranges = UptimeString(id, n + 1)]] :
             codes \in [1..k -> StatusCodes],
             logs \in {l \in [1..k -> logSeqs] : SumLen(l) \in LogCounts}} :
          k \in MonitorCounts}

----------------------------------------------------------------------------
(* State *)

VARIABLES
    now,            \* new Date().getTime(), in milliseconds
    cache,          \* cache.siteData: null, or {data, timestamp}
    calls,          \* the getSiteData calls, by slot: where each one stands
    upstream,       \* the slots whose axios.post is in flight
    siteState,      \* status.siteState
    siteOverview,   \* status.siteOverview
    faviconHref,    \* href of link[rel="shortcut icon"]
    faviconPresent, \* whether the document holds that link element
    envSort,        \* import.meta.env.VITE_SITE_SORT
    ev,             \* the operation that led to this state, and how it ended
    dp,             \* dataProcessing and changeSite applied to one input
    px              \* the proxy handler applied to requests

clientVars == <<now, cache, calls, upstream, siteState, siteOverview, faviconHref, ev>>
envVars == <<faviconPresent, envSort>>
vars == <<now, cache, calls, upstream, siteState, siteOverview, faviconHref,
          faviconPresent, envSort, ev, dp, px>>

\* the getSiteData calls that may be pending at the same time
Slots == {1, 2}

\* the clock at construction: 45 seconds before a midnight
StartTime == 3 * DayMs - 45000

\* the step by which the clock advances: half the cache's lifetime
TickMs == (cacheDuration * 1000) \div 2

\* VITE_SITE_SORT: unset, or "B, A"
SortConfigs == {Undefined, Arr(<<"B", ",", " ", "A">>)}

NullCache == [present |-> FALSE, data |-> <<>>, timestamp |-> 0]

NoOverview == [count |-> 0, okCount |-> 0, downCount |-> 0, unknownCount |-> 0]

\* a slot no call is pending in; a pending call waits for its response
\* ("fetching") or for its timer ("timer"), or waits for ever ("hung": its
\* timer callback threw before resolve)
IdleCall ==
    [pc |-> "idle", days |-> 0, dates |-> <<>>, data |-> <<>>, armed |-> 0,
     postdata |-> <<>>]

\* a new call takes the first slot that is idle
FirstIdle(c) == calls[c].pc = "idle" /\ \A b \in Slots : b < c => calls[b].pc # "idle"

\* the state the variables of the other specifications rest in
NoDp == [phase |-> "off"]
NoPx == [phase |-> "off"]

----------------------------------------------------------------------------
(* getSiteData *)

\* dates: today's midnight and the midnights of the days - 1 days before it
datesOf(t, days) == [d \in 1..days |-> midnight(t) - (d - 1) * DayMs]

\* rangesOf with the one-day ranges oldest first
rangesOfOldestFirst(dates) ==
    [i \in 1..Len(dates) |->
        <<unix(dates[Len(dates) + 1 - i]), unix(addDay(dates[Len(dates) + 1 - i]))>>]
    \o <<<<unix(dates[Len(dates)]), unix(addDay(dates[1]))>>>>

\* ranges: one per date, then the range from the oldest to the newest day
rangesOf(dates) ==
    [i \in 1..Len(dates) |-> <<unix(dates[i]), unix(addDay(dates[i]))>>]
    \o <<<<unix(dates[Len(dates)]), unix(addDay(dates[1]))>>>>

\* `${start}_${end}`
rangeString(r) == <<Num(r[1]), Sym("_"), Num(r[2])>>

\* the parameters of the request; custom_uptime_ranges is ranges.join("-")
postdataOf(apikey, dates) ==
    [api_key |-> apikey,
     format |-> "json",
     logs |-> 1,
     log_types |-> "1-2",
     logs_start_date |-> unix(dates[Len(dates)]),
     logs_end_date |-> unix(addDay(dates[1])),
     custom_uptime_ranges |->
        join([i \in 1..Len(rangesOf(dates)) |-> rangeString(rangesOf(dates)[i])], Sym("-"))]

\* the cache check with the entry still served at the age of 60 seconds
cacheUsableInclusive(c, t) == c.present /\ t - c.timestamp <= cacheDuration * 1000

\* currentTime - timestamp < cacheDuration * 1000, for a cache that is not null
cacheUsable(c, t) == c.present /\ t - c.timestamp < cacheDuration * 1000

\* the random delay of the cache-hit timer: its least and its greatest value
Delays == {DelayMin, DelayMax}

\* The call up to its first await.  With days = 0, dates is empty and
\* dates[dates.length - 1].unix() throws: the catch block sets "wrong" and
\* the call rejects.  Otherwise the call either arms the cache-hit timer or
\* posts the request.
getSiteData(c, apikey, days) ==
    /\ FirstIdle(c)
    /\ ev' = [op |-> "getSiteData", slot |-> c, days |-> days,
              outcome |-> IF days = 0 THEN "rejected" ELSE "pending",
              error |-> IF days = 0 THEN "TypeError" ELSE ""]
    /\ UNCHANGED <<now, cache, siteOverview, faviconHref, envVars, dp, px>>
    /\ IF days = 0
       THEN /\ siteState' = "wrong"
            /\ UNCHANGED <<calls, upstream>>
       ELSE LET dates == datesOf(now, days)
            IN  /\ siteState' = "loading"
                /\ IF cacheUsable(cache, now)
                   THEN /\ calls' = [calls EXCEPT ![c] =
                                        [IdleCall EXCEPT !.pc = "timer", !.days = days,
                                                         !.dates = dates,
                                                         !.data = cache.data,
                                                         !.armed = now]]
                        /\ UNCHANGED upstream
                   ELSE /\ calls' = [calls EXCEPT ![c] =
                                        [IdleCall EXCEPT !.pc = "fetching", !.days = days,
                                                         !.dates = dates,
                                                         !.postdata = postdataOf(apikey, dates)]]
                        /\ upstream' = upstream \cup {c}

\* how a call that ran dataProcessing and changeSite ends: resolved with the
\* processed data, or with the exception of dataProcessing, which rejects
\* the call on the fetch path and on the timer path leaves the callback
\* before resolve is called ("hung")
outcomeOf(out, onThrow) == IF out.threw THEN onThrow ELSE "resolved"

\* the value dataProcessing returned: undefined, or the list of sites
resultOf(out) == [defined |-> out.defined, list |-> out.list]

\* the end of the call: the site state, the overview, the favicon and the
\* slot of the call
finish(c, out, onThrow) ==
    LET st == changeSite(resultOf(out),
                         [siteState |-> siteState, siteOverview |-> siteOverview,
                          faviconHref |-> faviconHref],
                         faviconPresent)
    IN  IF out.threw
        THEN /\ siteState' = IF onThrow = "rejected" THEN "wrong" ELSE siteState
             /\ UNCHANGED <<siteOverview, faviconHref>>
             /\ calls' = [calls EXCEPT ![c] =
                             IF onThrow = "hung" THEN [IdleCall EXCEPT !.pc = "hung"]
                             ELSE IdleCall]
        ELSE /\ siteState' = st.siteState
             /\ siteOverview' = st.siteOverview
             /\ faviconHref' = st.faviconHref
             /\ calls' = [calls EXCEPT ![c] = IdleCall]

\* the timer callback also taking the read for a refresh of the entry
cacheAfterTimerTouch(data, sorted) ==
    IF cache.present /\ cache.data = data
    THEN [cache EXCEPT !.data = sorted, !.timestamp = now]
    ELSE cache

\* the cache after the timer callback: the array it held at the call, if it
\* still holds it, is the array dataProcessing sorted in place
cacheAfterTimer(data, sorted) ==
    IF cache.present /\ cache.data = data
    THEN [cache EXCEPT !.data = sorted]
    ELSE cache

\* The callback of the cache-hit timer, which runs once the delay drawn for
\* it has passed.  data is the array the cache held when the call was made;
\* dataProcessing sorts that array in place.
timerFires(c, delay) ==
    /\ calls[c].pc = "timer"
    /\ now >= calls[c].armed + delay
    /\ LET out == dataProcessing(Arr(calls[c].data), calls[c].dates, envSort)
       IN  /\ cache' = cacheAfterTimer(calls[c].data, out.sorted.list)
           /\ finish(c, out, "hung")
           /\ ev' = [op |-> "timer", slot |-> c,
                     outcome |-> outcomeOf(out, "hung"), error |-> "",
                     result |-> resultOf(out)]
    /\ UNCHANGED <<now, upstream, envVars, dp, px>>

\* the ranges the API reads from a custom_uptime_ranges parameter: the parts
\* between "-", each "start_end"
RangesAsked(str) ==
    LET parts == split(str, Sym("-"))
    IN  [i \in 1..Len(parts) |->
            <<split(parts[i], Sym("_"))[1][1].num, split(parts[i], Sym("_"))[2][1].num>>]

\* the responses the API may give to a request that reaches it: a body
\* without a monitors list, an empty list, or two monitors with logs
ClientResponses(postdata) ==
    LET asked == RangesAsked(postdata.custom_uptime_ranges)
        ranges == SubSeq(asked, 1, Len(asked) - 1)
        n == Len(ranges)
        full == Len(asked)
        mon(id, code, logSpecs) ==
            [MonitorOf(id, code, logSpecs, ranges) EXCEPT
                !.custom_uptime_ranges = UptimeString(id, full)]
    IN  {Undefined,
         Arr(<<>>),
         Arr(<<mon(1, 2, <<[type |-> 1, dayOff |-> n - 1]>>),
               mon(2, 9, <<[type |-> 2, dayOff |-> 0], [type |-> 1, dayOff |-> 0]>>)>>)}

\* the store of the response that keeps an entry the cache already holds
cacheAfterFetchKeepsPrior(response, sorted) ==
    IF response.defined /\ ~cache.present
    THEN [present |-> TRUE, data |-> sorted, timestamp |-> now]
    ELSE cache

\* the store of the response skipped when the cache holds a fresh entry
cacheAfterFetchUnlessFresh(response, sorted) ==
    IF response.defined /\ ~cacheUsable(cache, now)
    THEN [present |-> TRUE, data |-> sorted, timestamp |-> now]
    ELSE cache

\* if (response.monitors) cache.changeSiteData({data, timestamp}): the cache
\* after the fetch; dataProcessing then sorts the stored array in place
cacheAfterFetch(response, sorted) ==
    IF response.defined
    THEN [present |-> TRUE, data |-> sorted, timestamp |-> now]
    ELSE cache

\* getMonitorsData returned response.data, and the rest of getSiteData ran.
\* ev.overlap: the step before was the success of another call's fetch, so
\* the two fetches were in flight together and this one completed last
fetchSucceeds(c, response) ==
    /\ calls[c].pc = "fetching"
    /\ c \in upstream
    /\ upstream' = upstream \ {c}
    /\ LET out == dataProcessing(response, calls[c].dates, envSort)
       IN  /\ cache' = cacheAfterFetch(response, out.sorted.list)
           /\ finish(c, out, "rejected")
           /\ ev' = [op |-> "fetchSucceeds", slot |-> c, response |-> response,
                     overlap |-> ev.op = "fetchSucceeds",
                     outcome |-> outcomeOf(out, "rejected"),
                     error |-> IF out.threw THEN "TypeError" ELSE "",
                     result |-> resultOf(out)]
    /\ UNCHANGED <<now, envVars, dp, px>>

\* the ways getMonitorsData throws: no response (network error or the 10 s
\* timeout), a non-2xx response, a body with stat === "fail"
FailureKinds == {"noResponse", "non2xx", "statFail"}

\* getMonitorsData threw: its catch block and then that of getSiteData set
\* "wrong" and re-throw
fetchFails(c, kind) ==
    /\ calls[c].pc = "fetching"
    /\ c \in upstream
    /\ upstream' = upstream \ {c}
    /\ siteState' = "wrong"
    /\ calls' = [calls EXCEPT ![c] = IdleCall]
    /\ ev' = [op |-> "fetchFails", slot |-> c, kind |-> kind,
              outcome |-> "rejected", error |-> kind]
    /\ UNCHANGED <<now, cache, siteOverview, faviconHref, envVars, dp, px>>

\* time passes
tick ==
    /\ now + TickMs <= StartTime + MaxTicks * TickMs
    /\ now' = now + TickMs
    /\ ev' = [op |-> "tick"]
    /\ UNCHANGED <<cache, calls, upstream, siteState, siteOverview, faviconHref,
                   envVars, dp, px>>

Init ==
    /\ now = StartTime
    /\ cache = NullCache
    /\ calls = [c \in Slots |-> IdleCall]
    /\ upstream = {}
    /\ siteState = "loading"
    /\ siteOverview = NoOverview
    /\ faviconHref = "./images/favicon.ico"
    /\ faviconPresent \in BOOLEAN
    /\ envSort \in SortConfigs
    /\ ev = [op |-> "init"]
    /\ dp = NoDp
    /\ px = NoPx

Next ==
    \/ \E c \in Slots, days \in 0..MaxDays : getSiteData(c, "key", days)
    \/ \E c \in Slots, delay \in Delays : timerFires(c, delay)
    \/ \E c \in Slots :
          /\ calls[c].pc = "fetching"
          /\ \E response \in ClientResponses(calls[c].postdata) :
                fetchSucceeds(c, response)
    \/ \E c \in Slots, kind \in FailureKinds : fetchFails(c, kind)
    \/ tick

Spec == Init /\ [][Next]_vars

\* the timer of the call in slot c has run out
timerDue(c) == calls[c].pc = "timer" /\ now >= calls[c].armed + DelayMin

\* A request that was posted ends: if no response comes, axios rejects it
\* after 10 seconds (timeout: 10000).  The event loop runs the callback of a
\* timer that has run out: weak fairness of timerFires, which is enabled
\* exactly while timerDue holds and ends that by its step, so that weak
\* fairness says that timerDue does not hold for ever.
SpecLive ==
    /\ Init
    /\ [][Next]_vars
    /\ \A c \in Slots :
          /\ WF_vars(\E kind \in FailureKinds : fetchFails(c, kind))
          /\ []<>~timerDue(c)

----------------------------------------------------------------------------
(* dataProcessing and changeSite on their own *)

NoOut == [sorted |-> Undefined, threw |-> FALSE, defined |-> FALSE, list |-> <<>>]

\* What getSiteData hands to dataProcessing: the monitors of a response to a
\* request for fetchDays days, or undefined (a response without monitors),
\* and the dates of a call for callDays days.  The two day counts differ
\* when a call is served from a cache that a call with another day count
\* filled.
DataInputs ==
    {[phase |-> "input", data |-> Arr(list), dates |-> datesOf(StartTime, callDays),
      out |-> NoOut] :
        callDays \in 1..MaxDays,
        list \in UNION {ApiLists(rangesOf(datesOf(StartTime, fetchDays))) :
                          fetchDays \in 1..MaxDays}}
    \cup
    {[phase |-> "input", data |-> Undefined, dates |-> datesOf(StartTime, callDays),
      out |-> NoOut] : callDays \in 1..MaxDays}

\* the orders in which a response may list the monitors 1, 2 and 3
MonitorOrders ==
    {o \in SeqsUpTo(1..3, 3) : \A i, j \in 1..Len(o) : i # j => o[i] # o[j]}

\* VITE_SITE_SORT: unset, "B, A", "B", "C,A", " A ,B"
PriorityLists ==
    {Undefined,
     Arr(<<"B", ",", " ", "A">>),
     Arr(<<"B">>),
     Arr(<<"C", ",", "A">>),
     Arr(<<" ", "A", " ", ",", "B">>)}

\* responses to a request for one day that list up monitors without log
\* entries, in any order
SortInputs ==
    {[phase |-> "input",
      data |-> Arr([i \in 1..Len(o) |->
                      MonitorOf(o[i], StatusUp, <<>>, rangesOf(datesOf(StartTime, 1)))]),
      dates |-> datesOf(StartTime, 1),
      out |-> NoOut] : o \in MonitorOrders}

\* const processedData = dataProcessing(data, dates)
dpProcess ==
    /\ dp.phase = "input"
    /\ dp' = [dp EXCEPT !.phase = "processed",
                        !.out = dataProcessing(dp.data, dp.dates, envSort)]
    /\ UNCHANGED <<clientVars, envVars, px>>

\* changeSite(processedData, status), reached when dataProcessing returned
dpPresent ==
    /\ dp.phase = "processed"
    /\ ~dp.out.threw
    /\ LET st == changeSite(resultOf(dp.out),
                            [siteState |-> siteState, siteOverview |-> siteOverview,
                             faviconHref |-> faviconHref],
                            faviconPresent)
       IN  /\ siteState' = st.siteState
           /\ siteOverview' = st.siteOverview
           /\ faviconHref' = st.faviconHref
    /\ dp' = [dp EXCEPT !.phase = "presented"]
    /\ UNCHANGED <<now, cache, calls, upstream, ev, envVars, px>>

\* A call served from the cache the call above filled (so the response had a
\* monitors list), with the same dates: the timer callback hands the cached
\* array, which is the response's array as the in-place sort left it, to
\* dataProcessing and the result to changeSite.  dp.shown is the site state
\* before the first such call, dp.again what dataProcessing returned now.
dpReread ==
    /\ dp.phase \in {"presented", "reread"}
    /\ dp.data.defined
    /\ LET reads == IF dp.phase = "reread" THEN dp.reads ELSE 0
           cached == IF dp.phase = "reread" THEN dp.cached ELSE dp.out.sorted
           again == dataProcessing(cached, dp.dates, envSort)
           st == changeSite(resultOf(again),
                            [siteState |-> siteState, siteOverview |-> siteOverview,
                             faviconHref |-> faviconHref],
                            faviconPresent)
       IN  /\ reads < MaxReads
           /\ dp' = [phase |-> "reread", data |-> dp.data, dates |-> dp.dates,
                     out |-> dp.out,
                     shown |-> IF dp.phase = "reread" THEN dp.shown
                               ELSE [siteState |-> siteState,
                                     siteOverview |-> siteOverview,
                                     faviconHref |-> faviconHref],
                     cached |-> again.sorted,
                     again |-> again,
                     reads |-> reads + 1]
           /\ siteState' = IF again.threw THEN "loading" ELSE st.siteState
           /\ siteOverview' = IF again.threw THEN siteOverview ELSE st.siteOverview
           /\ faviconHref' = IF again.threw THEN faviconHref ELSE st.faviconHref
    /\ UNCHANGED <<now, cache, calls, upstream, ev, envVars, px>>

InitData ==
    /\ now = StartTime
    /\ cache = NullCache
    /\ calls = [c \in Slots |-> IdleCall]
    /\ upstream = {}
    /\ siteState = "loading"
    /\ siteOverview = NoOverview
    /\ faviconHref = "./images/favicon.ico"
    /\ faviconPresent \in BOOLEAN
    /\ ev = [op |-> "init"]
    /\ \/ dp \in DataInputs /\ envSort \in SortConfigs
       \/ dp \in SortInputs /\ envSort \in PriorityLists
    /\ px = NoPx

NextData == dpProcess \/ dpPresent \/ dpReread

SpecData == InitData /\ [][NextData]_vars

----------------------------------------------------------------------------
(* Properties of dataProcessing and changeSite (checked under SpecData) *)

\* the input monitor dataProcessing made the site from
SiteOf(list, m) == CHOOSE i \in 1..Len(list) : list[i].id = m.id

\* an uptime string "v1-v2-...-vk": the number of its values and its k-th value
ValueCount(str) == Cardinality({i \in 1..Len(str) : str[i] = "-"}) + 1
ValueAt(str, k) == str[2 * k - 1]

\* the calendar day of a unix time in seconds, and of a date in milliseconds
DayOfSeconds(sec) == sec \div 86400
DayOfDate(ms) == ms \div 86400000

\* the down entries of a log list that started on the day of a date
DownLogsOn(logs, date) ==
    {l \in 1..Len(logs) : logs[l].type = 1 /\ DayOfSeconds(logs[l].datetime) = DayOfDate(date)}

RECURSIVE SumDuration(_, _)
SumDuration(logs, idx) ==
    IF idx = {} THEN 0
    ELSE LET l == CHOOSE x \in idx : TRUE
         IN  logs[l].duration + SumDuration(logs, idx \ {l})

Processed == dp.phase \in {"processed", "presented"}

\* C5: for every monitor whose uptime-range string has N+1 values, with N the
\* length of the date list, the site dataProcessing returns for it has the
\* last value as its average and a daily array of exactly N entries; entry i
\* carries dates[i] and the i-th value.
C5_UptimeRangesOntoDates ==
    (Processed /\ dp.out.defined) =>
        \A j \in 1..Len(dp.data.list) :
            LET m == dp.data.list[j]
                str == m.custom_uptime_ranges
                N == Len(dp.dates)
            IN  /\ \E i \in 1..Len(dp.out.list) : dp.out.list[i].id = m.id
                /\ ValueCount(str) = N + 1 =>
                      LET site == dp.out.list[SiteOf(dp.out.list, m)]
                      IN  /\ site.average = UptimeTable[ValueAt(str, N + 1)]
                          /\ Len(site.daily) = N
                          /\ \A k \in 1..N :
                                /\ site.daily[k].date = dp.dates[k]
                                /\ site.daily[k].uptime = UptimeTable[ValueAt(str, k)]

\* a call for two days processed the response to a request for two days
C5_Witness ==
    /\ dp.phase = "processed"
    /\ dp.out.defined
    /\ Len(dp.dates) = 2
    /\ Len(dp.out.list) = 2
    /\ \A i \in 1..2 : ValueCount(dp.data.list[i].custom_uptime_ranges) = 3
    /\ \E i \in 1..2 : /\ dp.out.list[i].id = 1
                       /\ dp.out.list[i].average = 970
                       /\ dp.out.list[i].daily[1].uptime = 955
                       /\ dp.out.list[i].daily[2].uptime = 1000

\* C6: every log entry of the down type (type 1) increments exactly one daily
\* bucket, the one of the calendar day of its start time, by 1 and by its
\* duration; entries of any other type change no bucket.  So after
\* dataProcessing every down entry has exactly one bucket of its day, and
\* every bucket holds the count and the summed duration of the down entries
\* of its day.
C6_DownLogIncrementsOneBucket ==
    (Processed /\ dp.data.defined) =>
        /\ ~dp.out.threw
        /\ \A j \in 1..Len(dp.data.list) :
              LET m == dp.data.list[j]
                  site == dp.out.list[SiteOf(dp.out.list, m)]
              IN  /\ \A l \in 1..Len(m.logs) :
                        m.logs[l].type = 1 =>
                            Cardinality({k \in 1..Len(dp.dates) :
                                DayOfDate(dp.dates[k]) = DayOfSeconds(m.logs[l].datetime)}) = 1
                  /\ \A k \in 1..Len(dp.dates) :
                        /\ site.daily[k].down.times =
                              Cardinality(DownLogsOn(m.logs, dp.dates[k]))
                        /\ site.daily[k].down.duration =
                              SumDuration(m.logs, DownLogsOn(m.logs, dp.dates[k]))

\* C7: the status of the site made from a monitor is "ok" for status code 2,
\* "down" for code 9 and "unknown" for any other code.
C7_StatusMapping ==
    (Processed /\ dp.out.defined) =>
        \A j \in 1..Len(dp.data.list) :
            LET m == dp.data.list[j]
            IN  /\ \E i \in 1..Len(dp.out.list) : dp.out.list[i].id = m.id
                /\ dp.out.list[SiteOf(dp.out.list, m)].status =
                      CASE m.status = 2 -> "ok"
                        [] m.status = 9 -> "down"
                        [] OTHER -> "unknown"

\* a monitor with code 8 became "unknown" next to one with code 9, "down"
C7_Witness ==
    /\ dp.phase = "processed"
    /\ dp.out.defined
    /\ \E j \in 1..Len(dp.data.list) :
          /\ dp.data.list[j].status = 8
          /\ dp.out.list[SiteOf(dp.out.list, dp.data.list[j])].status = "unknown"
    /\ \E j \in 1..Len(dp.data.list) :
          /\ dp.data.list[j].status = 9
          /\ dp.out.list[SiteOf(dp.out.list, dp.data.list[j])].status = "down"

AllOk(list) == \A i \in 1..Len(list) : list[i].status = "ok"
NoneOk(list) == \A i \in 1..Len(list) : list[i].status # "ok"

\* C8 as stated: for every site list passed to changeSite the state is
\* "normal" iff every site is ok, "allError" iff no site is ok, and "error"
\* otherwise.
C8_RollupAsStated ==
    (dp.phase = "presented" /\ dp.out.defined) =>
        /\ siteState = "normal" <=> AllOk(dp.out.list)
        /\ siteState = "allError" <=> NoneOk(dp.out.list)
        /\ siteState = "error" <=> (~AllOk(dp.out.list) /\ ~NoneOk(dp.out.list))

\* C8 amended: when changeSite raises no exception (the favicon link element
\* exists), the state is "normal" iff every site is ok (so also for the empty
\* list), "allError" iff there is a site and no site is ok, and "error"
\* otherwise; when it raises one, the state is "error".
C8_Rollup ==
    (dp.phase = "presented" /\ dp.out.defined) =>
        IF faviconPresent
        THEN /\ siteState = "normal" <=> AllOk(dp.out.list)
             /\ siteState = "allError" <=> (dp.out.list # <<>> /\ NoneOk(dp.out.list))
             /\ siteState = "error" <=> (~AllOk(dp.out.list) /\ ~NoneOk(dp.out.list))
        ELSE siteState = "error"

\* changeSite classified a list with one ok site and one other as "error"
C8_Witness ==
    /\ dp.phase = "presented"
    /\ dp.out.defined
    /\ faviconPresent
    /\ Len(dp.out.list) = 2
    /\ ~AllOk(dp.out.list)
    /\ ~NoneOk(dp.out.list)
    /\ siteState = "error"

\* the down counts, and the down durations, of daily buckets summed up
RECURSIVE SumDownTimes(_)
SumDownTimes(daily) ==
    IF daily = <<>> THEN 0 ELSE Head(daily).down.times + SumDownTimes(Tail(daily))

RECURSIVE SumDownDuration(_)
SumDownDuration(daily) ==
    IF daily = <<>> THEN 0 ELSE Head(daily).down.duration + SumDownDuration(Tail(daily))

\* C18: for every site dataProcessing returns, total.times is the sum of
\* down.times over its daily buckets and total.duration the sum of
\* down.duration over them.
C18_TotalIsSumOfBuckets ==
    (Processed /\ dp.out.defined) =>
        \A i \in 1..Len(dp.out.list) :
            /\ dp.out.list[i].total.times = SumDownTimes(dp.out.list[i].daily)
            /\ dp.out.list[i].total.duration = SumDownDuration(dp.out.list[i].daily)

\* a monitor with an up entry and a down entry was aggregated: one down time
\* in the total and in the buckets
C18_Witness ==
    /\ dp.phase = "processed"
    /\ dp.out.defined
    /\ \E j \in 1..Len(dp.data.list) :
          /\ Len(dp.data.list[j].logs) = 2
          /\ \E l \in 1..2 : dp.data.list[j].logs[l].type = 2
          /\ \E l \in 1..2 : dp.data.list[j].logs[l].type = 1
          /\ dp.out.list[SiteOf(dp.out.list, dp.data.list[j])].total.times = 1
          /\ SumDownTimes(dp.out.list[SiteOf(dp.out.list, dp.data.list[j])].daily) = 1

\* C19: a getSiteData call served from the cache, with the date list of the
\* call whose fetch filled the cache, resolves with the aggregated site list
\* that call returned (same sites, order, averages, daily buckets, totals and
\* statuses) and sets the site state that call set; a repeated read gives the
\* same again.
C19_CacheReadSameResult ==
    dp.phase = "reread" =>
        /\ ~dp.again.threw
        /\ resultOf(dp.again) = resultOf(dp.out)
        /\ siteState = dp.shown.siteState
        /\ siteOverview = dp.shown.siteOverview
        /\ faviconHref = dp.shown.faviconHref

\* with the priority list "B, A", the second call served from the cache gave
\* the two sites of the filling call, B before A, one of them with a down time
C19_Witness ==
    /\ dp.phase = "reread"
    /\ dp.reads = 2
    /\ envSort = Arr(<<"B", ",", " ", "A">>)
    /\ [i \in 1..Len(dp.data.list) |-> dp.data.list[i].id] = <<1, 2>>
    /\ [i \in 1..Len(dp.again.list) |-> dp.again.list[i].id] = <<2, 1>>
    /\ \E i \in 1..2 : dp.again.list[i].total.times = 1
    /\ dp.again.list = dp.out.list
    /\ siteState = dp.shown.siteState

\* the entries of a priority list "n1,n2,...", trimmed
Entries(cfg) == [i \in 1..Len(split(cfg.list, ",")) |-> trim(split(cfg.list, ",")[i])]

\* a site or monitor name is named in the list; its place there
Named(cfg, name) == cfg.defined /\ \E i \in 1..Len(Entries(cfg)) : Entries(cfg)[i] = trim(name)
Place(cfg, name) ==
    CHOOSE i \in 1..Len(Entries(cfg)) :
        Entries(cfg)[i] = trim(name) /\ \A j \in 1..(i - 1) : Entries(cfg)[j] # trim(name)

\* where the input holds the monitor a site was made from
InputPlace(data, site) == CHOOSE j \in 1..Len(data) : data[j].id = site.id

\* C15: dataProcessing orders the sites by the priority list: sites whose
\* trimmed name is an entry of the list stand in the list's order relative to
\* each other, sites whose name is not keep their relative order of the
\* input, and when the priority list is not configured (sorting fails) the
\* sites are in the order of the input.
C15_PriorityOrder ==
    (Processed /\ dp.out.defined) =>
        LET in == dp.data.list
            out == dp.out.list
        IN  /\ Len(out) = Len(in)
            /\ \A j \in 1..Len(in) : \E i \in 1..Len(out) : out[i].id = in[j].id
            /\ \A i, j \in 1..Len(out) :
                  i < j =>
                     /\ (Named(envSort, out[i].name) /\ Named(envSort, out[j].name)) =>
                            Place(envSort, out[i].name) <= Place(envSort, out[j].name)
                     /\ (envSort.defined /\ ~Named(envSort, out[i].name)
                                         /\ ~Named(envSort, out[j].name)) =>
                            InputPlace(in, out[i]) < InputPlace(in, out[j])
                     /\ ~envSort.defined => InputPlace(in, out[i]) < InputPlace(in, out[j])

\* with the list "C,A" the input A, B, C came out as C, A, B
C15_Witness ==
    /\ dp.phase = "processed"
    /\ envSort = Arr(<<"C", ",", "A">>)
    /\ [i \in 1..Len(dp.data.list) |-> dp.data.list[i].id] = <<1, 2, 3>>
    /\ dp.out.defined
    /\ [i \in 1..Len(dp.out.list) |-> dp.out.list[i].id] = <<3, 1, 2>>

\* some site of the list whose name is not in the priority list stands before
\* one whose name is
UnnamedAhead(list, cfg) ==
    \E i, j \in 1..Len(list) :
        i < j /\ ~Named(cfg, list[i].friendly_name) /\ Named(cfg, list[j].friendly_name)

\* C16 as stated: there is an input and a priority list for which
\* dataProcessing places a site not named in the list before a site that is
\* named in it.
C16_UnmatchedAheadAsStated ==
    \E input \in SortInputs, cfg \in PriorityLists :
        /\ cfg.defined
        /\ UnnamedAhead(dataProcessing(input.data, input.dates, cfg).sorted.list, cfg)

\* C16 amended: the comparator gives a name that is not in the priority list
\* priority 0, below every name that is in it (priority 1 and up): for every
\* input and priority list, dataProcessing places every site named in the
\* list before every site not named in it.
C16_UnmatchedLast ==
    (Processed /\ envSort.defined /\ dp.data.defined) =>
        /\ ~UnnamedAhead(dp.out.sorted.list, envSort)
        /\ dp.out.defined =>
              ~\E i, j \in 1..Len(dp.out.list) :
                  /\ i < j
                  /\ ~Named(envSort, dp.out.list[i].name)
                  /\ Named(envSort, dp.out.list[j].name)

\* with the list "B, A" the input C, A, B came out as B, A, C
C16_Witness ==
    /\ dp.phase = "processed"
    /\ envSort = Arr(<<"B", ",", " ", "A">>)
    /\ [i \in 1..Len(dp.data.list) |-> dp.data.list[i].id] = <<3, 1, 2>>
    /\ dp.out.defined
    /\ [i \in 1..Len(dp.out.list) |-> dp.out.list[i].id] = <<2, 1, 3>>

----------------------------------------------------------------------------
(* Properties of getSiteData (checked under Spec) *)

\* the cache slot holds an entry whose age at time t is under 60 seconds
FreshEntry(c, t) == c.present /\ t - c.timestamp < 60000

\* C1 as stated: every getSiteData call issues no network request when the
\* cache holds an entry younger than 60 seconds, and issues one when the slot
\* is empty or the entry is 60 seconds old or older.
C1_CacheGateAsStated ==
    [][ev'.op = "getSiteData" =>
          IF FreshEntry(cache, now) THEN upstream' = upstream
          ELSE upstream' # upstream /\ upstream \subseteq upstream']_vars

\* C1 amended: every getSiteData call with a day count of at least 1 issues no
\* network request when the cache holds an entry younger than 60 seconds, and
\* issues one when the slot is empty or the entry is 60 seconds old or older;
\* a call with day count 0 throws before the cache is looked at and issues no
\* request.
C1_CacheGate ==
    [][ev'.op = "getSiteData" =>
          IF ev'.days >= 1
          THEN IF FreshEntry(cache, now) THEN upstream' = upstream
               ELSE upstream' # upstream /\ upstream \subseteq upstream'
          ELSE upstream' = upstream]_vars

\* a call found an entry aged 30 seconds and armed the timer, no request sent
C1_Witness ==
    /\ ev.op = "getSiteData"
    /\ ev.days >= 1
    /\ cache.present
    /\ now - cache.timestamp = 30000
    /\ calls[ev.slot].pc = "timer"
    /\ upstream = {}

\* C2: the cache slot is created or replaced only by a call whose fetch
\* succeeded; a call that fails and a call served from the cache leave the
\* entry and its timestamp as they were.
C2_CacheWrittenOnlyByFetch ==
    [][cache' # cache => ev'.op = "fetchSucceeds" /\ ev'.response.defined]_vars

\* a fetch failed while the cache held an entry
C2_Witness ==
    /\ ev.op = "fetchFails"
    /\ cache.present
    /\ cache.data # <<>>

\* the two lists hold the same monitors, each as often
SameMonitors(a, b) ==
    /\ Len(a) = Len(b)
    /\ \A x \in {a[i] : i \in 1..Len(a)} \cup {b[i] : i \in 1..Len(b)} :
          Cardinality({i \in 1..Len(a) : a[i] = x}) =
          Cardinality({i \in 1..Len(b) : b[i] = x})

\* the cache holds the monitor list of the response, stamped with this time
HoldsResponse(response) ==
    /\ cache.present
    /\ cache.timestamp = now
    /\ SameMonitors(cache.data, response.list)
    /\ ~envSort.defined => cache.data = response.list

\* C3 as stated: after every fetch that returns without error the cache holds
\* that fetch's monitor list and a timestamp taken at its completion.
C3_StoreOnSuccessAsStated ==
    ev.op = "fetchSucceeds" => HoldsResponse(ev.response)

\* C3 amended: after every fetch that returns without error a response
\* carrying a monitors list, the cache holds that list (which dataProcessing
\* sorts in place) and a timestamp taken at its completion, whatever it held
\* before.
C3_StoreOnSuccess ==
    (ev.op = "fetchSucceeds" /\ ev.response.defined) => HoldsResponse(ev.response)

\* a fetch that ended 60 seconds after the cache was filled replaced the entry
C3_Witness ==
    /\ ev.op = "fetchSucceeds"
    /\ ev.response.defined
    /\ ev.response.list # <<>>
    /\ cache.timestamp = StartTime + 60000
    /\ now = cache.timestamp

\* C4: when the fetch fails (no response, a non-2xx response, or a response
\* with stat === "fail") the call rejects with that error and the site state
\* is "wrong", which the view renders as the error result with its reload
\* action, whatever site data it holds.
C4_FetchFailure ==
    ev.op = "fetchFails" =>
        /\ ev.outcome = "rejected"
        /\ ev.error = ev.kind
        /\ calls[ev.slot].pc = "idle"
        /\ siteState = "wrong"
        /\ \A hasSiteData \in BOOLEAN : SiteStatus(siteState, hasSiteData) = "errorResult"

\* a fetch failed on stat === "fail" after an earlier call had shown sites
C4_Witness ==
    /\ ev.op = "fetchFails"
    /\ ev.kind = "statFail"
    /\ siteState = "wrong"
    /\ siteOverview.count = 2

\* a getSiteData call is made while another call's fetch is in flight and
\* the cache is empty or stale
OverlappingCall == ev'.op = "getSiteData" /\ upstream # {} /\ ~FreshEntry(cache, now)

\* the fetch that completes in this step overlapped with one that succeeded
LastOfTwo == ev'.op = "fetchSucceeds" /\ ev'.overlap

\* the call posts a request of its own, next to those in flight
OwnRequest ==
    /\ ev'.slot \notin upstream
    /\ upstream' = upstream \cup {ev'.slot}
    /\ calls'[ev'.slot].pc = "fetching"
    /\ calls'[ev'.slot].days = ev'.days

\* C13 as stated: a getSiteData call made while another call's fetch is in
\* flight, with the cache empty or stale, issues its own request; after two
\* overlapping fetches have both succeeded the cache holds the result of the
\* one that completed last.
C13_NoCoordinationAsStated ==
    [][/\ OverlappingCall => OwnRequest
       /\ LastOfTwo => HoldsResponse(ev.response)']_vars

\* C13 amended: a getSiteData call with a day count of at least 1 made while
\* another call's fetch is in flight, with the cache empty or stale, issues
\* its own request; after two overlapping fetches have both succeeded the
\* cache holds the result of the one that completed last, if that response
\* carries a monitors list.
C13_NoCoordination ==
    [][/\ (OverlappingCall /\ ev'.days >= 1) => OwnRequest
       /\ (LastOfTwo /\ ev'.response.defined) => HoldsResponse(ev.response)']_vars

\* the fetch of a call for one day completed right after that of a call for
\* two days, and the cache holds its two monitors with one-day uptime strings
C13_Witness ==
    /\ ev.op = "fetchSucceeds"
    /\ ev.overlap
    /\ ev.slot = 1
    /\ Len(ev.response.list) = 2
    /\ ValueCount(ev.response.list[1].custom_uptime_ranges) = 2
    /\ cache.present
    /\ SameMonitors(cache.data, ev.response.list)
    /\ upstream = {}

\* the step ran changeSite, and changeSite raised an exception: it was handed
\* undefined (the response had no monitors list), or a site list while the
\* document has no favicon link element
ChangeSiteRaised ==
    \/ ev.op = "fetchSucceeds" /\ ~ev.response.defined
    \/ ev.op \in {"fetchSucceeds", "timer"} /\ ev.result.defined /\ ~faviconPresent

\* C14: an exception raised inside changeSite is caught and not propagated:
\* the getSiteData call that ran it is resolved (with what dataProcessing
\* returned), not rejected, and the site state is "error".
C14_RollupExceptionCaught ==
    ChangeSiteRaised =>
        /\ ev.outcome = "resolved"
        /\ calls[ev.slot].pc = "idle"
        /\ siteState = "error"

\* a fetch returned a body without monitors: changeSite was handed undefined,
\* the call resolved with undefined and the state is "error"
C14_Witness ==
    /\ ev.op = "fetchSucceeds"
    /\ ~ev.response.defined
    /\ faviconPresent
    /\ ev.outcome = "resolved"
    /\ ~ev.result.defined
    /\ siteState = "error"

\* C17: every getSiteData call eventually settles: a call whose request was
\* posted, and a call served from the cache whose timer is due, is resolved
\* or rejected in the end (its slot is idle again), also when aggregating the
\* cached data throws inside the timer callback; and a step of a call that
\* leaves no call pending does not leave the site state at "loading".
C17_EveryCallSettles ==
    /\ \A c \in Slots :
          /\ (calls[c].pc = "fetching") ~> (calls[c].pc = "idle")
          /\ (calls[c].pc = "timer" /\ now >= calls[c].armed + DelayMax)
                ~> (calls[c].pc = "idle")
    /\ [][(ev'.op # "tick" /\ \A c \in Slots : calls'[c].pc = "idle")
            => siteState' # "loading"]_vars

\* the midnight, in unix seconds, that starts the calendar day of time t
MidnightSeconds(t) == (t \div 86400000) * 86400

\* C12: the request built by a getSiteData call with day count N >= 1 carries
\* exactly N+1 custom uptime ranges: N one-day ranges for the N trailing
\* days, newest first, each from a midnight to the next, then one range from
\* the start of the oldest day to the end of the newest; logs_start_date and
\* logs_end_date are the bounds of that last range.
C12_RequestRanges ==
    (ev.op = "getSiteData" /\ ev.days >= 1 /\ calls[ev.slot].pc = "fetching") =>
        LET post == calls[ev.slot].postdata
            N == ev.days
            asked == RangesAsked(post.custom_uptime_ranges)
        IN  /\ Len(asked) = N + 1
            /\ \A i \in 1..N :
                  /\ asked[i][1] = MidnightSeconds(now) - (i - 1) * 86400
                  /\ asked[i][2] = asked[i][1] + 86400
            /\ asked[N + 1] = <<asked[N][1], asked[1][2]>>
            /\ post.logs_start_date = asked[N + 1][1]
            /\ post.logs_end_date = asked[N + 1][2]

\* a call for two days, made after midnight had passed, posted three ranges
C12_Witness ==
    /\ ev.op = "getSiteData"
    /\ ev.days = 2
    /\ calls[ev.slot].pc = "fetching"
    /\ now > 3 * 86400000
    /\ Len(RangesAsked(calls[ev.slot].postdata.custom_uptime_ranges)) = 3
    /\ RangesAsked(calls[ev.slot].postdata.custom_uptime_ranges)[3] = <<2 * 86400, 4 * 86400>>

----------------------------------------------------------------------------
(* The proxy handler *)

\* the first "=" of a part of the body, 0 if it has none
FirstEq(part) ==
    IF \E i \in 1..Len(part) : part[i] = "="
    THEN CHOOSE i \in 1..Len(part) : part[i] = "=" /\ \A j \in 1..(i - 1) : part[j] # "="
    ELSE 0

\* one "name=value" part as a field; a part without "=" has an empty value
fieldOf(part) ==
    IF FirstEq(part) = 0 THEN [name |-> part, value |-> <<>>]
    ELSE [name |-> SubSeq(part, 1, FirstEq(part) - 1),
          value |-> SubSeq(part, FirstEq(part) + 1, Len(part))]

\* new URLSearchParams(body): the fields of the parts between "&", empty
\* parts skipped
URLSearchParams(body) ==
    LET parts == SelectSeq(split(body, "&"), LAMBDA part : part # <<>>)
    IN  [i \in 1..Len(parts) |-> fieldOf(parts[i])]

\* params.append(name, value)
paramsAppend(fields, name, value) == Append(fields, [name |-> name, value |-> value])

\* params.set(name, value): the first field of that name takes the value and
\* the others of that name go; without such a field one is appended
paramsSet(fields, name, value) ==
    IF \E i \in 1..Len(fields) : fields[i].name = name
    THEN LET first == CHOOSE i \in 1..Len(fields) :
                         fields[i].name = name /\ \A j \in 1..(i - 1) : fields[j].name # name
             keep == {i \in 1..Len(fields) : fields[i].name # name \/ i = first}
             RECURSIVE pick(_)
             pick(i) == IF i > Len(fields) THEN <<>>
                        ELSE (IF i \in keep
                              THEN <<IF i = first THEN [name |-> name, value |-> value]
                                     ELSE fields[i]>>
                              ELSE <<>>) \o pick(i + 1)
         IN  pick(1)
    ELSE paramsAppend(fields, name, value)

\* params.toString()
RECURSIVE paramsToString(_)
paramsToString(fields) ==
    IF fields = <<>> THEN <<>>
    ELSE Head(fields).name \o <<"=">> \o Head(fields).value
         \o (IF Len(fields) > 1 THEN <<"&">> ELSE <<>>)
         \o paramsToString(Tail(fields))

\* process.env.UPTIMEROBOT_API_KEY: unset, empty, or the secret
Secrets == {[defined |-> FALSE, value |-> <<>>],
            [defined |-> TRUE, value |-> <<>>],
            [defined |-> TRUE, value |-> <<"SECRET">>]}

\* the check taking only an unset variable for a missing secret
secretAbsentOnlyUnset(secret) == ~secret.defined

\* !apiKey
secretAbsent(secret) == ~secret.defined \/ secret.value = <<>>

\* the bodies clients send: up to two fields named api_key or format, and two
\* bodies that are not well-formed field lists
FieldCounts == 0..2
ClientFields == [name : {<<"api_key">>, <<"format">>}, value : {<<"stolen">>, <<"json">>}]
ClientBodies ==
    {paramsToString(f) : f \in UNION {[1..n -> ClientFields] : n \in FieldCounts}}
    \cup {<<"api_key">>, <<"&", "api_key", "=", "stolen", "=", "json", "&">>}

Methods == {"POST", "GET"}

\* what the upstream API answers: its status, body and content type
UpstreamReplies ==
    {[status |-> 200, body |-> "monitors", contentType |-> "application/json; charset=utf-8"],
     [status |-> 200, body |-> "monitors", contentType |-> ""],
     [status |-> 429, body |-> "rate limited", contentType |-> "text/html"],
     [status |-> 429, body |-> "rate limited", contentType |-> ""],
     [status |-> 204, body |-> "", contentType |-> ""]}

\* the statuses of a response that has no body.  new Response(body, init)
\* throws a TypeError when body is not null and init.status is one of them;
\* the text of a response, also an empty one, is a string and so not null
NullBodyStatuses == {204, 205, 304}

Sessions == {1, 2}

IdleSession ==
    [phase |-> "idle", method |-> "", body |-> <<>>, textFailed |-> FALSE,
     sent |-> FALSE, upstreamBody |-> <<>>,
     got |-> FALSE, gotStatus |-> 0, gotText |-> "",
     status |-> 0, text |-> "", contentType |-> "", cacheControl |-> ""]

\* the forwarded body with the secret appended after the client's fields
forwardedBodyAppended(body, secret) ==
    paramsToString(paramsAppend(URLSearchParams(body), <<"api_key">>, secret.value))

\* the body the handler forwards: the fields of the client's body with
\* api_key set to the secret
forwardedBody(body, secret) ==
    paramsToString(paramsSet(URLSearchParams(body), <<"api_key">>, secret.value))

\* The handler up to its await of fetch: 405 for a method other than POST,
\* 500 without the secret, and otherwise the request sent upstream.
\* textFails: req.text() threw, and the body is taken to be "".
proxyHandle(s, method, body, textFails) ==
    /\ px.s[s].phase = "idle"
    /\ px' = [px EXCEPT !.s[s] =
          IF method # "POST"
          THEN [IdleSession EXCEPT !.phase = "done", !.method = method, !.body = body,
                                   !.status = 405, !.text = "Method Not Allowed"]
          ELSE IF secretAbsent(px.env)
          THEN [IdleSession EXCEPT !.phase = "done", !.method = method, !.body = body,
                                   !.status = 500, !.text = "Missing UPTIMEROBOT_API_KEY"]
          ELSE [IdleSession EXCEPT !.phase = "awaiting", !.method = method, !.body = body,
                                   !.textFailed = textFails,
                                   !.sent = TRUE,
                                   !.upstreamBody =
                                       forwardedBody(IF textFails THEN <<>> ELSE body, px.env)]]
    /\ UNCHANGED <<clientVars, envVars, dp>>

\* fetch resolved with the response r of the upstream (got, gotStatus and
\* gotText record it): its text is read and a Response with that text, its
\* status and the two headers goes back to the client, unless the Response
\* constructor throws, and the handler with it
proxyRelay(s, r) ==
    /\ px.s[s].phase = "awaiting"
    /\ px' = IF r.status \in NullBodyStatuses
             THEN [px EXCEPT !.s[s].phase = "threw",
                             !.s[s].got = TRUE,
                             !.s[s].gotStatus = r.status,
                             !.s[s].gotText = r.body]
             ELSE [px EXCEPT !.s[s].phase = "done",
                             !.s[s].got = TRUE,
                             !.s[s].gotStatus = r.status,
                             !.s[s].gotText = r.body,
                             !.s[s].status = r.status,
                             !.s[s].text = r.body,
                             !.s[s].contentType = IF r.contentType # "" THEN r.contentType
                                                  ELSE "application/json",
                             !.s[s].cacheControl = "no-store"]
    /\ UNCHANGED <<clientVars, envVars, dp>>

\* fetch rejected: the handler throws, and builds no response
proxyFetchThrows(s) ==
    /\ px.s[s].phase = "awaiting"
    /\ px' = [px EXCEPT !.s[s].phase = "threw"]
    /\ UNCHANGED <<clientVars, envVars, dp>>

InitProxy ==
    /\ now = StartTime
    /\ cache = NullCache
    /\ calls = [c \in Slots |-> IdleCall]
    /\ upstream = {}
    /\ siteState = "loading"
    /\ siteOverview = NoOverview
    /\ faviconHref = "./images/favicon.ico"
    /\ faviconPresent = TRUE
    /\ envSort = Undefined
    /\ ev = [op |-> "init"]
    /\ dp = NoDp
    /\ px \in {[phase |-> "on", env |-> secret, s |-> [s \in Sessions |-> IdleSession]] :
                 secret \in Secrets}

NextProxy ==
    \/ \E s \in Sessions, method \in Methods, body \in ClientBodies :
          proxyHandle(s, method, body, FALSE)
    \/ \E s \in Sessions, method \in Methods :
          proxyHandle(s, method, <<"format", "=", "json">>, TRUE)
    \/ \E s \in Sessions, r \in UpstreamReplies : proxyRelay(s, r)
    \/ \E s \in Sessions : proxyFetchThrows(s)

SpecProxy == InitProxy /\ [][NextProxy]_vars

----------------------------------------------------------------------------
(* Properties of the proxy handler (checked under SpecProxy) *)

\* the places of a body where a field named api_key starts
KeyFieldsAt(body) ==
    {i \in 1..Len(body) : body[i] = "api_key" /\ (i = 1 \/ body[i - 1] = "&")}

\* the field starting at place i of the body is api_key=SECRET
IsSecretField(body, i) ==
    /\ i + 2 <= Len(body)
    /\ body[i + 1] = "="
    /\ body[i + 2] = "SECRET"
    /\ (i + 2 = Len(body) \/ body[i + 3] = "&")

\* two bodies that differ at most in the values of their api_key fields
DifferOnlyInKeyValues(a, b) ==
    /\ Len(a) = Len(b)
    /\ \A i \in 1..Len(a) :
          a[i] # b[i] =>
              /\ i >= 3
              /\ a[i - 1] = "=" /\ b[i - 1] = "="
              /\ (i - 2) \in KeyFieldsAt(a) \cap KeyFieldsAt(b)

\* C9: the proxy discards any client-supplied key: the upstream request of
\* every POST it forwards has one api_key field, which holds the server-side
\* secret, and two requests that differ only in the api_key values the client
\* supplied produce identical upstream requests.
C9_ClientKeyDiscarded ==
    /\ \A s \in Sessions :
          px.s[s].sent =>
              /\ Cardinality(KeyFieldsAt(px.s[s].upstreamBody)) = 1
              /\ \A i \in KeyFieldsAt(px.s[s].upstreamBody) :
                    IsSecretField(px.s[s].upstreamBody, i)
    /\ \A s, t \in Sessions :
          (/\ px.s[s].sent /\ px.s[t].sent
           /\ px.s[s].textFailed = px.s[t].textFailed
           /\ DifferOnlyInKeyValues(px.s[s].body, px.s[t].body))
            => px.s[s].upstreamBody = px.s[t].upstreamBody

\* two forwarded POSTs whose bodies differ in the api_key value alone
C9_Witness ==
    /\ px.s[1].sent /\ px.s[2].sent
    /\ px.s[1].body = <<"format", "=", "json", "&", "api_key", "=", "stolen">>
    /\ px.s[2].body = <<"format", "=", "json", "&", "api_key", "=", "json">>
    /\ px.s[1].upstreamBody = <<"format", "=", "json", "&", "api_key", "=", "SECRET">>
    /\ px.s[2].upstreamBody = px.s[1].upstreamBody

\* C10: the proxy answers any request that is not a POST with status 405 and
\* a POST with the server-side secret absent (unset or empty) with status
\* 500; in both cases nothing is sent upstream.
C10_MethodAndSecretChecks ==
    \A s \in Sessions :
        px.s[s].phase # "idle" =>
            /\ px.s[s].method # "POST" =>
                  px.s[s].phase = "done" /\ px.s[s].status = 405 /\ ~px.s[s].sent
            /\ (px.s[s].method = "POST" /\ (~px.env.defined \/ px.env.value = <<>>)) =>
                  px.s[s].phase = "done" /\ px.s[s].status = 500 /\ ~px.s[s].sent

\* with an empty secret, a GET was answered 405 and a POST 500
C10_Witness ==
    /\ px.env.defined /\ px.env.value = <<>>
    /\ px.s[1].method = "GET" /\ px.s[1].status = 405 /\ ~px.s[1].sent
    /\ px.s[2].method = "POST" /\ px.s[2].status = 500 /\ ~px.s[2].sent

\* C11: for every POST the proxy forwards and the upstream answers, the
\* response returned to the client has the status code and the body of the
\* upstream response, unchanged, and carries Cache-Control: no-store.
C11_PassThrough ==
    \A s \in Sessions :
        px.s[s].got =>
            /\ px.s[s].phase = "done"
            /\ px.s[s].status = px.s[s].gotStatus
            /\ px.s[s].text = px.s[s].gotText
            /\ px.s[s].cacheControl = "no-store"

====
